---- MODULE Spec2Model ----
(***************************************************************************)
(* Model of the JPEG/EXIF capture-timestamp decoder of m3s (src/jpg.rs).   *)
(*                                                                         *)
(* A byte buffer is a sequence over 0..255.  Rust slices are 0-based and   *)
(* half open; Slice(s, a, b) is s[a..b].  A slice or index out of range    *)
(* aborts the call (a panic), which the model records as the outcome       *)
(* "Panic".  u32 values are kept as two 16-bit halves so that the 32-bit   *)
(* arithmetic of parse_ifd_entry is modelled with its width: an overflow   *)
(* panics in a build with overflow checks and wraps modulo 2^32 in a build *)
(* without them.  Each println! is a write of its own and panics when      *)
(* standard output refuses it (a closed pipe, a full device, a size        *)
(* limit).  The first refusal ends the call, so the environment is the     *)
(* number of lines it accepts before it refuses one, stdoutLimit; printed  *)
(* counts the lines written so far.                                        *)
(***************************************************************************)
EXTENDS Integers, Sequences, FiniteSets, TLC

VARIABLES input, data, overflowChecks, stdoutLimit, printed, pc, app1, ifd0, count, idx, entry, found, result

vars == <<input, data, overflowChecks, stdoutLimit, printed, pc, app1, ifd0, count, idx, entry, found, result>>

(***************************************************************************)
(* Bytes, slices and fixed-width integers                                  *)
(***************************************************************************)
Half == 65536

Slice(s, a, b) == SubSeq(s, a + 1, b)

SliceFrom(s, a) == SubSeq(s, a + 1, Len(s))

At(s, k) == s[k + 1]

U16FromBe(b) == 256 * b[1] + b[2]

U16FromLe(b) == b[1] + 256 * b[2]

U32FromLe(b) == [lo |-> b[1] + 256 * b[2], hi |-> b[3] + 256 * b[4]]

U32(n) == [lo |-> n % Half, hi |-> n \div Half]

\* u32 * u32 where the left factor is a width of the table (at most 8)
U32Mul(w, c) ==
    LET lowp == w * c.lo
        hip  == w * c.hi + (lowp \div Half)
    IN  [ovf |-> hip >= Half, val |-> [lo |-> lowp % Half, hi |-> hip % Half]]

U32Add(a, b) ==
    LET lows == a.lo + b.lo
        his  == a.hi + b.hi + (lows \div Half)
    IN  [ovf |-> his >= Half, val |-> [lo |-> lows % Half, hi |-> his % Half]]

U32Le(a, b) == a.hi < b.hi \/ (a.hi = b.hi /\ a.lo <= b.lo)

\* `x as usize` compared with a buffer length (lengths are below 2^16 + 4)
UsizeLe(a, n) == a.hi = 0 /\ a.lo <= n

I16(n) == IF n >= 32768 THEN n - Half ELSE n

I8(n) == IF n >= 128 THEN n - 256 ELSE n

I32(u) == IF u.hi >= 32768 THEN (u.hi - Half) * Half + u.lo ELSE u.hi * Half + u.lo

RECURSIVE Reverse(_)
Reverse(s) == IF s = <<>> THEN <<>> ELSE Append(Reverse(Tail(s)), Head(s))

(***************************************************************************)
(* String::from_utf8_lossy: the decoded string as a sequence of code       *)
(* points; every maximal invalid part becomes one U+FFFD.                  *)
(***************************************************************************)
Replacement == 65533

Utf8CharWidth(b) ==
    IF b < 128 THEN 1
    ELSE IF b >= 194 /\ b <= 223 THEN 2
    ELSE IF b >= 224 /\ b <= 239 THEN 3
    ELSE IF b >= 240 /\ b <= 244 THEN 4
    ELSE 0

\* safe_get: the byte at 1-based position k, 0 past the end
SafeGet(s, k) == IF k <= Len(s) THEN s[k] ELSE 0

IsCont(b) == b >= 128 /\ b <= 191

Second3Ok(f, b) ==
    \/ f = 224 /\ b >= 160 /\ b <= 191
    \/ f >= 225 /\ f <= 236 /\ IsCont(b)
    \/ f = 237 /\ b >= 128 /\ b <= 159
    \/ f >= 238 /\ f <= 239 /\ IsCont(b)

Second4Ok(f, b) ==
    \/ f = 240 /\ b >= 144 /\ b <= 191
    \/ f >= 241 /\ f <= 243 /\ IsCont(b)
    \/ f = 244 /\ b >= 128 /\ b <= 143

\* [n |-> bytes consumed, cp |-> code point] for the character at the head of s
Utf8Step(s) ==
    LET f == s[1]
        w == Utf8CharWidth(f)
        b2 == SafeGet(s, 2)
        b3 == SafeGet(s, 3)
        b4 == SafeGet(s, 4)
    IN  IF w = 1 THEN [n |-> 1, cp |-> f]
        ELSE IF w = 2 THEN
            IF IsCont(b2) THEN [n |-> 2, cp |-> (f - 192) * 64 + (b2 - 128)]
            ELSE [n |-> 1, cp |-> Replacement]
        ELSE IF w = 3 THEN
            IF ~Second3Ok(f, b2) THEN [n |-> 1, cp |-> Replacement]
            ELSE IF ~IsCont(b3) THEN [n |-> 2, cp |-> Replacement]
            ELSE [n |-> 3, cp |-> (f - 224) * 4096 + (b2 - 128) * 64 + (b3 - 128)]
        ELSE IF w = 4 THEN
            IF ~Second4Ok(f, b2) THEN [n |-> 1, cp |-> Replacement]
            ELSE IF ~IsCont(b3) THEN [n |-> 2, cp |-> Replacement]
            ELSE IF ~IsCont(b4) THEN [n |-> 3, cp |-> Replacement]
            ELSE [n |-> 4, cp |-> (f - 240) * 262144 + (b2 - 128) * 4096
                                   + (b3 - 128) * 64 + (b4 - 128)]
        ELSE [n |-> 1, cp |-> Replacement]

RECURSIVE FromUtf8Lossy(_)
FromUtf8Lossy(s) ==
    IF s = <<>> THEN <<>>
    ELSE LET st == Utf8Step(s)
         IN  <<st.cp>> \o FromUtf8Lossy(SubSeq(s, st.n + 1, Len(s)))

(***************************************************************************)
(* PrimitiveDateTime::parse with the format description                    *)
(* "[year]:[month]:[day] [hour]:[minute]:[second]": an optional sign and   *)
(* four digits, then two-digit fields between the literal separators, no   *)
(* trailing characters, and a date and time that exist.                    *)
(***************************************************************************)
IsDigit(c) == c >= 48 /\ c <= 57

Num2(s, k) == (s[k] - 48) * 10 + (s[k + 1] - 48)

Num4(s, k) == (s[k] - 48) * 1000 + (s[k + 1] - 48) * 100 + (s[k + 2] - 48) * 10 + (s[k + 3] - 48)

IsLeapYear(y) == y % 4 = 0 /\ (y % 100 # 0 \/ y % 400 = 0)

DaysInMonth(y, m) ==
    IF m = 2 THEN (IF IsLeapYear(y) THEN 29 ELSE 28)
    ELSE IF m \in {4, 6, 9, 11} THEN 30
    ELSE 31

DigitPositions == {1, 2, 3, 4, 6, 7, 9, 10, 12, 13, 15, 16, 18, 19}

ParseDateTime(s) ==
    LET signed == Len(s) > 0 /\ s[1] \in {43, 45}
        body == IF signed THEN Tail(s) ELSE s
        shape == /\ Len(body) = 19
                 /\ \A k \in DigitPositions : IsDigit(body[k])
                 /\ body[5] = 58 /\ body[8] = 58 /\ body[11] = 32
                 /\ body[14] = 58 /\ body[17] = 58
        mag == Num4(body, 1)
        t == [year   |-> IF signed /\ s[1] = 45 THEN 0 - mag ELSE mag,
              month  |-> Num2(body, 6),
              day    |-> Num2(body, 9),
              hour   |-> Num2(body, 12),
              minute |-> Num2(body, 15),
              second |-> Num2(body, 18)]
    IN  IF ~shape THEN [ok |-> FALSE]
        ELSE IF /\ t.month >= 1 /\ t.month <= 12
                /\ t.day >= 1 /\ t.day <= DaysInMonth(t.year, t.month)
                /\ t.hour <= 23 /\ t.minute <= 59 /\ t.second <= 59
             THEN [ok |-> TRUE, t |-> t]
             ELSE [ok |-> FALSE]

(***************************************************************************)
(* Outcomes of a call                                                      *)
(***************************************************************************)
Panic == [kind |-> "Panic"]

OkNone == [kind |-> "OkNone"]

OkSome(t) == [kind |-> "OkSome", t |-> t]

Err(cause) == [kind |-> "Err", cause |-> cause]

(***************************************************************************)
(* get_timestamp, lines 5-31: the container scan up to the IFD0 slice      *)
(***************************************************************************)
SOI == <<255, 216>>

ExifHeader == <<69, 120, 105, 102, 0, 0>>

TiffHeader == <<73, 73, 42, 0>>

MarkerPrefix == 255

App1Marker == 225

\* 8 + ifd0_offset is a usize sum (64 bits): it does not wrap, and a sum past
\* the segment fails the slice of line 31 in either build.
\* line 8: the first marker after SOI is APP1
IsApp1AnyAppMarker(d) == At(d, 3) >= 224 /\ At(d, 3) <= 239

IsApp1(d) == At(d, 3) = App1Marker

ScanContainer(d) ==
    IF Len(d) < 2 THEN Panic
    ELSE IF Slice(d, 0, 2) # SOI THEN Err("Missing SOI marker")
    ELSE IF Len(d) < 3 THEN Panic
    ELSE IF At(d, 2) # MarkerPrefix THEN Err("Expected start of marker")
    ELSE IF Len(d) < 4 THEN Panic
    ELSE IF ~IsApp1(d) THEN OkNone
    ELSE IF Len(d) < 6 THEN Panic
    ELSE LET segment_length == U16FromBe(Slice(d, 4, 6))
         IN  IF 4 + segment_length > Len(d) THEN Panic
             ELSE LET app1_data == Slice(d, 4, 4 + segment_length)
                  IN  IF Len(app1_data) < 8 THEN Panic
                      ELSE IF Slice(app1_data, 2, 8) # ExifHeader THEN Err("Invaid exif header")
                      ELSE IF Len(app1_data) < 12 THEN Panic
                      ELSE IF Slice(app1_data, 8, 12) # TiffHeader THEN Err("Invaid tiff header")
                      ELSE IF Len(app1_data) < 16 THEN Panic
                      ELSE LET ifd0_offset == U32FromLe(Slice(app1_data, 12, 16))
                               start == U32Add(ifd0_offset, U32(8))
                           IN  IF start.ovf \/ ~UsizeLe(start.val, Len(app1_data)) THEN Panic
                               ELSE [kind |-> "Ifd0",
                                     app1 |-> app1_data,
                                     ifd0 |-> SliceFrom(app1_data, start.val.lo)]

(***************************************************************************)
(* parse_ifd_entry                                                         *)
(***************************************************************************)
DateTimeTag == 306

InlineMax == 4

RecordLen == 12

TiffBase == 8

KnownFormats == 1 .. 12

\* lines 93-110: bytes per component of a data format
BytesPerComponent(data_format) ==
    CASE data_format \in {1, 2, 6, 7} -> 1
      [] data_format \in {3, 8}       -> 2
      [] data_format \in {4, 9, 11}   -> 4
      [] data_format \in {5, 10, 12}  -> 8

\* lines 122-139: the value of a data format decoded from value_data;
\* "Panic" where the decode slices past the end of value_data
DecodeValue(data_format, value_data) ==
    CASE data_format = 1 -> [variant |-> "UnsignedByte", v |-> At(value_data, 0)]
      [] data_format = 2 -> [variant |-> "AsciiStrings", v |-> FromUtf8Lossy(value_data)]
      [] data_format = 3 -> [variant |-> "UnsignedShort", v |-> U16FromLe(Slice(value_data, 0, 2))]
      [] data_format = 4 -> [variant |-> "UnsignedLong", v |-> U32FromLe(Slice(value_data, 0, 4))]
      [] data_format = 5 -> [variant |-> "UnsignedRational"]
      [] data_format = 6 -> [variant |-> "SignedByte", v |-> I8(At(value_data, 0))]
      [] data_format = 7 -> [variant |-> "Undefined", v |-> value_data]
      [] data_format = 8 -> [variant |-> "SignedShort", v |-> I16(U16FromLe(Slice(value_data, 0, 2)))]
      [] data_format = 9 -> [variant |-> "SignedLong", v |-> I32(U32FromLe(Slice(value_data, 0, 4)))]
      [] data_format = 10 -> [variant |-> "SignedRational"]
      [] data_format = 11 -> [variant |-> "SingleFloat", bits |-> Slice(value_data, 0, 4)]
      [] data_format = 12 ->
            IF Len(value_data) < 8 THEN [variant |-> "Panic"]
            ELSE [variant |-> "DoubleFloat", bits |-> Reverse(Slice(value_data, 0, 8))]

\* line 117: the value field as an offset from the start of app1_data
ValueOffsetNoBase(rec) == U32Add(U32FromLe(Slice(rec, 8, 12)), U32(0))

ValueOffset(rec) == U32Add(U32FromLe(Slice(rec, 8, 12)), U32(TiffBase))

\* lines 112-120: the inline field or the indirected bytes of the segment.
\* checks is TRUE in a build with overflow checks (an overflow panics) and
\* FALSE in a build without (it wraps).
ValueData(rec, app1_data, bytes_per_component, number_of_components, checks) ==
    LET len == U32Mul(bytes_per_component, number_of_components)
        data_length == len.val
        off == ValueOffset(rec)
        offset == off.val
        endp == U32Add(offset, data_length)
        end == endp.val
    IN  IF len.ovf /\ checks THEN [kind |-> "Panic"]
        ELSE IF U32Le(data_length, U32(InlineMax))
             THEN [kind |-> "Value", path |-> "inline", bytes |-> Slice(rec, 8, 12)]
        ELSE IF off.ovf /\ checks THEN [kind |-> "Panic"]
        ELSE IF endp.ovf /\ checks THEN [kind |-> "Panic"]
        ELSE IF ~U32Le(offset, end) \/ ~UsizeLe(end, Len(app1_data)) THEN [kind |-> "Panic"]
        ELSE [kind |-> "Value", path |-> "offset",
              bytes |-> Slice(app1_data, offset.lo, end.lo)]

\* lines 106-109: a data format outside the table: println! of line 107, which
\* panics when standard output cannot be written, then None
UnknownFormat(writable) == IF writable THEN [kind |-> "None"] ELSE [kind |-> "Panic"]

ParseIfdEntry(rec, app1_data, checks, writable) ==
    LET tag_number == U16FromLe(Slice(rec, 0, 2))
        data_format == U16FromLe(Slice(rec, 2, 4))
        number_of_components == U32FromLe(Slice(rec, 4, 8))
    IN  IF data_format \notin KnownFormats THEN UnknownFormat(writable)
        ELSE LET vd == ValueData(rec, app1_data, BytesPerComponent(data_format),
                                 number_of_components, checks)
             IN  IF vd.kind = "Panic" THEN [kind |-> "Panic"]
                 ELSE LET value == DecodeValue(data_format, vd.bytes)
                      IN  IF value.variant = "Panic" THEN [kind |-> "Panic"]
                          ELSE [kind |-> "Some", tag |-> tag_number, data |-> value,
                                format |-> data_format,
                                components |-> number_of_components,
                                path |-> vd.path]

(***************************************************************************)
(* parse_ifd0                                                              *)
(***************************************************************************)
\* line 40: the entry count, "Panic" when the directory has fewer than 2 bytes
NumberOfEntries(ifd0_data) ==
    IF Len(ifd0_data) < 2 THEN [kind |-> "Panic"]
    ELSE [kind |-> "Count", n |-> U16FromLe(Slice(ifd0_data, 0, 2))]

\* lines 42-48: the closure of filter_map for index i
EntryAt(ifd0_data, app1_data, i, checks, writable) ==
    LET data_start == 2 + RecordLen * i
        data_end == 14 + RecordLen * i
    IN  IF data_end > Len(ifd0_data) THEN [kind |-> "Panic"]
        ELSE ParseIfdEntry(Slice(ifd0_data, data_start, data_end), app1_data, checks, writable)

\* lines 50-61: the closure of map applied to the entry found
Assemble(e) ==
    IF e.data.variant # "AsciiStrings"
    THEN Err("DateTime entry contained invalid data format")
    ELSE LET p == ParseDateTime(e.data.v)
         IN  IF p.ok THEN OkSome(p.t) ELSE Err("DateTime string does not parse")

\* lines 42-50: the lazy filter_map/find over 0..number_of_entries from index i;
\* room is the number of lines standard output still accepts, and every entry
\* filtered out (None, line 108) has printed one
RECURSIVE FindDateTime(_, _, _, _, _, _)
FindDateTime(ifd0_data, app1_data, i, n, checks, room) ==
    IF i >= n THEN [kind |-> "None"]
    ELSE LET e == EntryAt(ifd0_data, app1_data, i, checks, room > 0)
         IN  IF e.kind = "Panic" THEN e
             ELSE IF e.kind = "Some" /\ e.tag = DateTimeTag THEN e
             ELSE FindDateTime(ifd0_data, app1_data, i + 1, n, checks,
                               IF e.kind = "None" THEN room - 1 ELSE room)

ParseIfd0(ifd0_data, app1_data, checks, room) ==
    LET c == NumberOfEntries(ifd0_data)
    IN  IF c.kind = "Panic" THEN Panic
        ELSE LET e == FindDateTime(ifd0_data, app1_data, 0, c.n, checks, room)
             IN  IF e.kind = "Panic" THEN Panic
                 ELSE IF e.kind = "None" THEN OkNone
                 ELSE Assemble(e)

(***************************************************************************)
(* get_timestamp                                                           *)
(***************************************************************************)
\* limit is the number of lines standard output accepts during the call
GetTimestamp(d, checks, limit) ==
    LET s == ScanContainer(d)
    IN  IF s.kind = "Ifd0" THEN ParseIfd0(s.ifd0, s.app1, checks, limit) ELSE s

(***************************************************************************)
(* Input buffers.  A directory is described by its entries: tag, format,   *)
(* component count, and either the four bytes of the value field or a      *)
(* payload that is laid out after the directory and pointed to by the      *)
(* value field (offsets relative to the TIFF header).                      *)
(***************************************************************************)
MaxEntries == 2

MaxRawLen == 4

\* lines standard output accepts before it refuses one (MaxWrites: it accepts
\* every line of the directories built here)
MaxWrites == 2

Le16(n) == <<n % 256, n \div 256>>

Be16(n) == <<n \div 256, n % 256>>

Le32(u) == Le16(u.lo) \o Le16(u.hi)

U32Max == [lo |-> Half - 1, hi |-> Half - 1]

Digits2(n) == <<48 + (n \div 10), 48 + (n % 10)>>

Digits4(n) == Digits2(n \div 100) \o Digits2(n % 100)

\* "YYYY<sep>MM<sep>DD HH:MM:SS" written from the fields of t
DateBytes(t, sep) ==
    Digits4(t.year) \o <<sep>> \o Digits2(t.month) \o <<sep>> \o Digits2(t.day)
    \o <<32>> \o Digits2(t.hour) \o <<58>> \o Digits2(t.minute) \o <<58>> \o Digits2(t.second)

Stamp(y, mo, d, h, mi, s) ==
    [year |-> y, month |-> mo, day |-> d, hour |-> h, minute |-> mi, second |-> s]

\* dates and times that exist
GoodStamps == {Stamp(2023, 7, 4, 10, 30, 0), Stamp(2024, 2, 29, 23, 59, 59),
               Stamp(1900, 12, 31, 0, 0, 0)}

\* dates and times that do not exist
BadStamps == {Stamp(2023, 2, 29, 10, 30, 0), Stamp(2023, 7, 4, 24, 0, 0),
              Stamp(2023, 13, 1, 0, 0, 60), Stamp(1900, 2, 29, 0, 0, 0)}

GoodStrings == {DateBytes(t, 58) : t \in GoodStamps}

BadStrings ==
    {DateBytes(t, 58) : t \in BadStamps}
    \cup {DateBytes(Stamp(2023, 7, 4, 10, 30, 0), 45)}
    \cup {DateBytes(Stamp(2023, 7, 4, 10, 30, 0), 58) \o <<0>>}
    \cup {<<195>> \o Tail(DateBytes(Stamp(2023, 7, 4, 10, 30, 0), 58))}

Field(tag, format, components, value, payload) ==
    [tag |-> tag, format |-> format, components |-> components,
     value |-> value, payload |-> payload]

\* an entry whose value is the string s, stored after the directory
StringField(tag, format, s) == Field(tag, format, U32(Len(s)), <<>>, s)

Tags == {306, 256}

DateTimeFields == {StringField(306, 2, s) : s \in GoodStrings \cup BadStrings}

GoodDateTimeFields == {StringField(306, 2, s) : s \in GoodStrings}

RawCounts == {U32(0), U32(1), U32(2), U32(4), U32(5), U32(8),
              [lo |-> 0, hi |-> 8192], [lo |-> 1, hi |-> 16384], U32Max}

\* "2023", an in-segment offset, offsets whose +8 wraps, an offset past the segment
RawValues == {<<50, 48, 50, 51>>, <<0, 0, 0, 0>>, <<248, 255, 255, 255>>,
              <<252, 255, 255, 255>>, <<0, 1, 0, 0>>}

RawFormats == {0, 1, 2, 3, 4, 5, 7, 9, 11, 12, 13}

RawFields ==
    {Field(t, f, c, v, <<>>) : t \in Tags, f \in RawFormats, c \in RawCounts, v \in RawValues}

\* entries with a format outside the table
SkippedFields ==
    {Field(t, f, cv[1], cv[2], <<>>) :
        t \in Tags, f \in {0, 13, 65535},
        cv \in {<<U32(0), <<0, 0, 0, 0>>>>, <<U32Max, <<255, 255, 255, 255>>>>}}

\* entries put after a first entry with the DateTime tag
LaterFields ==
    {StringField(306, 2, DateBytes(Stamp(2024, 2, 29, 23, 59, 59), 58))}
    \cup {Field(t, f, cv[1], cv[2], <<>>) :
            t \in Tags, f \in {2, 12, 13},
            cv \in {<<U32(0), <<50, 48, 50, 51>>>>, <<U32(5), <<252, 255, 255, 255>>>>}}

\* entries with the DateTime tag put first
FirstFields ==
    {StringField(306, 2, DateBytes(Stamp(2023, 7, 4, 10, 30, 0), 58)),
     StringField(306, 2, DateBytes(Stamp(2023, 7, 4, 10, 30, 0), 45)),
     Field(306, 4, U32(1), <<1, 0, 0, 0>>, <<>>),
     Field(306, 12, U32(0), <<0, 0, 0, 0>>, <<>>),
     Field(306, 13, U32(1), <<0, 0, 0, 0>>, <<>>)}

\* well-formed entries with another tag
PlainFields ==
    {Field(256, 3, U32(1), <<1, 0, 0, 0>>, <<>>),
     Field(256, 4, U32(1), <<1, 0, 0, 0>>, <<>>),
     StringField(256, 2, <<67, 97, 110, 111, 110, 0>>),
     Field(256, 5, U32(1), <<>>, <<72, 0, 0, 0, 1, 0, 0, 0>>)}

SeqsOf(S, lo, hi) == UNION {[1 .. n -> S] : n \in lo .. hi}

Directories ==
    {<<>>}
    \cup {<<r>> : r \in RawFields}
    \cup {p \o <<d>> : p \in SeqsOf(SkippedFields, 0, MaxEntries - 1), d \in DateTimeFields}
    \cup {p \o <<d>> : p \in SeqsOf(PlainFields, 1, MaxEntries - 1), d \in DateTimeFields}
    \cup {<<r, StringField(306, 2, DateBytes(Stamp(2023, 7, 4, 10, 30, 0), 58))>> :
            r \in {x \in RawFields : x.tag = 256}}
    \cup {<<f>> \o l : f \in FirstFields, l \in SeqsOf(LaterFields, 1, MaxEntries - 1)}

RECURSIVE PayloadLen(_, _)
PayloadLen(es, k) == IF k = 0 THEN 0 ELSE PayloadLen(es, k - 1) + Len(es[k].payload)

\* the 12-byte record of entry k of the directory es, the directory starting
\* gap bytes after the IFD0 offset field
RecordOf(es, k, gap) ==
    LET e == es[k]
        pointer == 10 + gap + 12 * Len(es) + PayloadLen(es, k - 1)
    IN  Le16(e.tag) \o Le16(e.format) \o Le32(e.components)
        \o (IF e.payload = <<>> THEN e.value ELSE Le32(U32(pointer)))

RECURSIVE Records(_, _, _)
Records(es, k, gap) ==
    IF k > Len(es) THEN <<>> ELSE RecordOf(es, k, gap) \o Records(es, k + 1, gap)

RECURSIVE Payloads(_, _)
Payloads(es, k) == IF k > Len(es) THEN <<>> ELSE es[k].payload \o Payloads(es, k + 1)

\* SOI, the APP1 marker and the segment holding the directory es
Jpeg(es, gap) ==
    LET body == <<69, 120, 105, 102, 0, 0>> \o <<73, 73, 42, 0>> \o <<8 + gap, 0, 0, 0>>
                \o [k \in 1 .. gap |-> 0] \o Le16(Len(es))
                \o Records(es, 1, gap) \o Payloads(es, 1)
    IN  <<255, 216, 255, 225>> \o Be16(2 + Len(body)) \o body

BaseJpeg == Jpeg(<<StringField(306, 2, DateBytes(Stamp(2023, 7, 4, 10, 30, 0), 58))>>, 0)

\* bytes between the TIFF header's offset field and the directory
Gaps == {0, 3}

HeaderLen == 24

ByteAlphabet == {0, 1, 8, 77, 216, 224, 225, 255}

RawAlphabet == {0, 216, 225, 255}

\* truncations and one-byte changes of the header of a well-formed file, and short buffers
RawBuffers ==
    {SubSeq(BaseJpeg, 1, n) : n \in 0 .. Len(BaseJpeg)}
    \cup {[BaseJpeg EXCEPT ![p] = b] : p \in 1 .. HeaderLen, b \in ByteAlphabet}
    \cup {[BaseJpeg EXCEPT ![4] = b] \o t :
            b \in {0, 192, 219, 224, 226}, t \in SeqsOf(RawAlphabet, 0, 1)}
    \cup SeqsOf(RawAlphabet, 0, MaxRawLen)

Inputs ==
    {[family |-> "raw", entries |-> <<>>, gap |-> 0, bytes |-> b] : b \in RawBuffers}
    \cup {[family |-> "dir", entries |-> es, gap |-> g, bytes |-> Jpeg(es, g)] :
            es \in Directories, g \in Gaps}

(***************************************************************************)
(* The call as a state machine: one action per stage of get_timestamp      *)
(***************************************************************************)
NoEntry == [kind |-> "NoEntry"]

Pending == [kind |-> "Pending"]

Init ==
    /\ input \in Inputs
    /\ data = input.bytes
    /\ overflowChecks \in BOOLEAN
    /\ stdoutLimit \in 0 .. MaxWrites
    /\ printed = 0
    /\ pc = "call"
    /\ app1 = <<>>
    /\ ifd0 = <<>>
    /\ count = 0
    /\ idx = 0
    /\ entry = NoEntry
    /\ found = NoEntry
    /\ result = Pending

\* get_timestamp lines 5-31
Scan ==
    /\ pc = "call"
    /\ LET s == ScanContainer(data)
       IN  IF s.kind = "Ifd0"
           THEN /\ app1' = s.app1
                /\ ifd0' = s.ifd0
                /\ pc' = "ifd0"
                /\ UNCHANGED result
           ELSE /\ result' = s
                /\ pc' = "done"
                /\ UNCHANGED <<app1, ifd0>>
    /\ UNCHANGED <<input, data, overflowChecks, stdoutLimit, printed, count, idx, entry, found>>

\* parse_ifd0 line 40
ReadCount ==
    /\ pc = "ifd0"
    /\ LET c == NumberOfEntries(ifd0)
       IN  IF c.kind = "Panic"
           THEN /\ result' = Panic
                /\ pc' = "done"
                /\ UNCHANGED count
           ELSE /\ count' = c.n
                /\ pc' = "entries"
                /\ UNCHANGED result
    /\ UNCHANGED <<input, data, overflowChecks, stdoutLimit, printed, app1, ifd0, idx, entry, found>>

\* parse_ifd0 lines 42-50: find pulls the next index through filter_map
NextEntry ==
    /\ pc = "entries"
    /\ idx < count
    /\ LET e == EntryAt(ifd0, app1, idx, overflowChecks, printed < stdoutLimit)
       IN  /\ entry' = [index |-> idx, out |-> e]
           /\ printed' = IF e.kind = "None" THEN printed + 1 ELSE printed
           /\ IF e.kind = "Panic"
              THEN /\ result' = Panic
                   /\ pc' = "done"
                   /\ UNCHANGED <<idx, found>>
              ELSE IF e.kind = "Some" /\ e.tag = DateTimeTag
              THEN /\ found' = e
                   /\ pc' = "assemble"
                   /\ UNCHANGED <<idx, result>>
              ELSE /\ idx' = idx + 1
                   /\ UNCHANGED <<pc, found, result>>
    /\ UNCHANGED <<input, data, overflowChecks, stdoutLimit, app1, ifd0, count>>

\* parse_ifd0 line 50 and get_timestamp line 34: the range is exhausted
NotFound ==
    /\ pc = "entries"
    /\ idx >= count
    /\ result' = OkNone
    /\ pc' = "done"
    /\ UNCHANGED <<input, data, overflowChecks, stdoutLimit, printed, app1, ifd0, count, idx, entry, found>>

\* parse_ifd0 lines 50-61 and get_timestamp lines 33, 35
AssembleTimestamp ==
    /\ pc = "assemble"
    /\ result' = Assemble(found)
    /\ pc' = "done"
    /\ UNCHANGED <<input, data, overflowChecks, stdoutLimit, printed, app1, ifd0, count, idx, entry, found>>

Next == Scan \/ ReadCount \/ NextEntry \/ NotFound \/ AssembleTimestamp

Spec == Init /\ [][Next]_vars

TypeOK ==
    /\ pc \in {"call", "ifd0", "entries", "assemble", "done"}
    /\ result.kind \in {"Pending", "Panic", "OkNone", "OkSome", "Err"}
    /\ (pc = "done") = (result.kind # "Pending")
    /\ printed <= stdoutLimit

\* the stages compose to the function
StagesAgree == pc = "done" => result = GetTimestamp(data, overflowChecks, stdoutLimit)

(***************************************************************************)
(* Properties                                                              *)
(***************************************************************************)
Done == pc = "done"

Es == input.entries

TagIndexes == {k \in 1 .. Len(Es) : Es[k].tag = 306}

\* the buffer is SOI, APP1, Exif, little-endian TIFF and a directory whose only
\* entry with tag 0x0132 is entry k; the other entries are well formed, of
\* recognized types
OnlyDateTimeEntry(k) ==
    /\ input.family = "dir"
    /\ TagIndexes = {k}
    /\ \A j \in 1 .. Len(Es) : j # k => Es[j] \in PlainFields

\* C1: a buffer whose only DateTime entry is an ASCII entry holding a
\* well-formed "YYYY:MM:DD HH:MM:SS" string yields Ok(Some(t)) with t the date
\* and time written in the string.
C1_RoundTrip ==
    \A k \in 1 .. Len(Es) :
        (Done /\ OnlyDateTimeEntry(k) /\ Es[k] \in GoodDateTimeFields)
            => \E t \in GoodStamps : Es[k].payload = DateBytes(t, 58) /\ result = OkSome(t)

C1_Witness ==
    /\ Done
    /\ OnlyDateTimeEntry(1)
    /\ Es[1].format = 2
    /\ Es[1].payload = DateBytes(Stamp(2023, 7, 4, 10, 30, 0), 58)
    /\ result = OkSome(Stamp(2023, 7, 4, 10, 30, 0))

\* C2: get_timestamp is total: every call returns Ok(None), Ok(Some(t)) or
\* Err(cause) and never aborts.
C2_NeverAborts == Done => result.kind \in {"OkNone", "OkSome", "Err"}

StartsWithSOI(d) == Len(d) >= 2 /\ d[1] = 255 /\ d[2] = 216

\* C3: every buffer that does not start with FF D8, of any length, yields the
\* "Missing SOI marker" error.
C3_MissingSOI ==
    (Done /\ ~StartsWithSOI(data)) => result = Err("Missing SOI marker")

\* C4: a DateTime entry (tag 0x0132) whose type code is not 2 yields an error,
\* never Ok(None) and never a timestamp.
C4_WrongTypeIsError ==
    \A k \in 1 .. Len(Es) :
        (Done /\ OnlyDateTimeEntry(k) /\ Es[k].format # 2)
            => result = Err("DateTime entry contained invalid data format")

\* C5: SOI followed by a marker FF xx with xx other than E1 yields Ok(None),
\* whatever bytes follow.
C5_FirstMarkerNotApp1 ==
    (Done /\ StartsWithSOI(data) /\ Len(data) >= 4 /\ data[3] = 255 /\ data[4] # 225)
        => result = OkNone

C5_Witness ==
    /\ Done
    /\ StartsWithSOI(data) /\ Len(data) > 20 /\ data[3] = 255 /\ data[4] = 224
    /\ result = OkNone

\* C6: a valid APP1/Exif/TIFF segment whose directory holds no entry with tag
\* 0x0132, whatever the entries' type codes and values, yields Ok(None).
C6_AbsentTagIsNone ==
    (Done /\ input.family = "dir" /\ TagIndexes = {}) => result = OkNone

\* the directory is k >= 1 entries with unrecognized type codes followed by a
\* well-formed ASCII DateTime entry
SkippedThenDateTime ==
    /\ input.family = "dir"
    /\ Len(Es) >= 2
    /\ Es[Len(Es)] \in GoodDateTimeFields
    /\ \A j \in 1 .. Len(Es) - 1 : Es[j].format \notin 1 .. 12

\* C7: entries with unrecognized type codes before a well-formed ASCII DateTime
\* entry are skipped: the result is Ok(Some(t)), the same as for the directory
\* with those entries removed.
C7_UnknownTypesSkipped ==
    (Done /\ SkippedThenDateTime)
        => /\ result.kind = "OkSome"
           /\ result = GetTimestamp(Jpeg(<<Es[Len(Es)]>>, input.gap), overflowChecks, stdoutLimit)

\* the record the last decoded entry was read from
EntryRecord == Slice(ifd0, 2 + 12 * entry.index, 14 + 12 * entry.index)

\* the first c bytes of the value: of the inline field when c <= 4, of the
\* segment at offset + 8 when c >= 5
DeclaredBytes(rec, c) ==
    IF c <= 4 THEN Slice(rec, 8, 8 + c)
    ELSE LET o == rec[9] + 256 * rec[10] + 8
         IN  IF rec[11] = 0 /\ rec[12] = 0 /\ o + c <= Len(app1)
             THEN Slice(app1, o, o + c)
             ELSE <<>>

\* C8: an ASCII or undefined entry with component count c decodes to exactly
\* its c value bytes, read inline when c <= 4 and at offset + 8 when c >= 5.
C8_ExactlyCountBytes ==
    (entry # NoEntry /\ entry.out.kind = "Some" /\ entry.out.format \in {2, 7})
        => LET c == entry.out.components.lo
               bytes == DeclaredBytes(EntryRecord, c)
           IN  /\ entry.out.components.hi = 0
               /\ entry.out.data.v = IF entry.out.format = 2 THEN FromUtf8Lossy(bytes) ELSE bytes

Widths == <<1, 1, 2, 4, 8, 1, 1, 2, 4, 8, 4, 8>>

\* width(type) * count <= 4 over the integers
TrueLengthInline(format, c) == c.hi = 0 /\ Widths[format] * c.lo <= 4

\* C9: for a recognized type code the inline path is taken if and only if
\* width(type) * count is at most 4 as an integer, also when the product does
\* not fit in 32 bits.
C9_InlineIffTrueLength ==
    (entry # NoEntry /\ entry.out.kind = "Some")
        => (entry.out.path = "inline"
                <=> TrueLengthInline(entry.out.format, entry.out.components))

\* the directory's record j (from 0), and whether the buffer holds it
RecAt(j) == Slice(ifd0, 2 + 12 * j, 14 + 12 * j)

InBuffer(j) == j < count /\ 14 + 12 * j <= Len(ifd0)

RecordIndexes == {j \in 0 .. (Len(ifd0) \div 12) : InBuffer(j)}

RecTag(j) == RecAt(j)[1] + 256 * RecAt(j)[2]

RecFormat(j) == RecAt(j)[3] + 256 * RecAt(j)[4]

Least(S) == CHOOSE m \in S : \A x \in S : m <= x

\* the buffer d with the directory's record j overwritten by the 12 bytes r
ReplaceRecord(d, j, r) ==
    LET start == 4 + (Len(app1) - Len(ifd0)) + 2 + 12 * j
    IN  [k \in 1 .. Len(d) |-> IF k > start /\ k <= start + 12 THEN r[k - start] ELSE d[k]]

\* records written over a later entry: other tags and duplicates of the DateTime
\* tag, recognized and unrecognized type codes, inline values, offsets past the
\* segment, and offsets of a date string
ModRecords ==
    {Le16(t) \o Le16(f) \o Le32(cv[1]) \o cv[2] :
        t \in Tags, f \in {2, 12, 13},
        cv \in {<<U32(0), <<50, 48, 50, 51>>>>,
                <<U32Max, <<252, 255, 255, 255>>>>,
                <<U32(19), <<34, 0, 0, 0>>>>}}

\* the outcome is the same with record j overwritten by any of ModRecords
Unaffected(j) ==
    \A r \in ModRecords : GetTimestamp(ReplaceRecord(data, j, r), overflowChecks, stdoutLimit) = result

\* the value of record m is inline or stored after record j
ValueClearOf(m, j) ==
    LET rec == RecAt(m)
        c == [lo |-> rec[5] + 256 * rec[6], hi |-> rec[7] + 256 * rec[8]]
    IN  \/ TrueLengthInline(RecFormat(m), c)
        \/ /\ rec[11] = 0 /\ rec[12] = 0
           /\ rec[9] + 256 * rec[10] + 8 >= (Len(app1) - Len(ifd0)) + 14 + 12 * j

TaggedRecords == {j \in RecordIndexes : RecTag(j) = 306}

DecodedTaggedRecords == {j \in TaggedRecords : RecFormat(j) \in 1 .. 12}

\* C10: the first directory entry with tag 0x0132 ends the search, so
\* overwriting any record after it leaves the outcome unchanged.
C10_FirstTaggedEntryDecides ==
    (Done /\ TaggedRecords # {})
        => \A j \in RecordIndexes : j > Least(TaggedRecords) => Unaffected(j)

\* What the lazy search does guarantee: after the first entry that is decoded
\* (type code 1..12) and has tag 0x0132 no further entry is pulled, so
\* overwriting a later record, the bytes of the match's own value left alone,
\* leaves the outcome unchanged.
LaterEntriesNotDecoded ==
    (Done /\ DecodedTaggedRecords # {})
        => LET m == Least(DecodedTaggedRecords)
           IN  \A j \in RecordIndexes : (j > m /\ ValueClearOf(m, j)) => Unaffected(j)

\* a first DateTime entry gave the timestamp although the record after it is a
\* DateTime entry whose value lies outside the segment
LaterEntriesNotDecodedReached ==
    /\ Done
    /\ DecodedTaggedRecords # {}
    /\ Least(DecodedTaggedRecords) = 0
    /\ InBuffer(1)
    /\ RecTag(1) = 306 /\ RecFormat(1) = 2 /\ RecAt(1)[9] = 252
    /\ result = OkSome(Stamp(2023, 7, 4, 10, 30, 0))

====
